---- MODULE Spec2Model ----
(***************************************************************************)
(* Rider tracking backend: the flat-file store (database.js), the presence *)
(* registry and the HTTP / socket handlers of the server.                  *)
(*                                                                         *)
(* JavaScript values that reach the handlers from clients are modelled as  *)
(* tagged records [t, v]: a number n, the decimal string of n, undefined   *)
(* or null.  Time is an integer clock; an ISO timestamp is the clock value *)
(* it was formatted from.                                                  *)
(***************************************************************************)
EXTENDS Integers, Sequences, FiniteSets, TLC

VARIABLES
    db,          \* the in-memory data set {riders, locations}
    disk,        \* the document last written to dbPath
    activeRiders,\* the presence registry: a Map in insertion order
    broadcasts,  \* everything passed to io.emit, in order
    response,    \* the HTTP response of the last REST request
    issued,      \* the ids insertLocation has returned, in call order
    now,         \* the wall clock
    last         \* the handler that ran last, with its input

vars == <<db, disk, activeRiders, broadcasts, response, issued, now, last>>

----------------------------------------------------------------------------
(* Bounds of the model *)

\* the longest broadcast stream explored
MaxBroadcasts == 4
\* the number of insertLocation calls explored
MaxInserts == 2
\* clock ticks the model resolves per second
TicksPerSecond == 2
\* how far past the retention horizon the clock runs, in ticks
ClockSlack == 1
\* the longest broadcast stream explored with every handler enabled
MaxServerEvents == 1

----------------------------------------------------------------------------
(* JavaScript values *)

Num(n) == [t |-> "num", v |-> n]
Str(n) == [t |-> "str", v |-> n]
Undefined == [t |-> "undef", v |-> 0]
Null == [t |-> "null", v |-> 0]

\* the model's stand-in for NaN: no rider id and no input number equals it
NaN == -1

\* parseInt(x): a number or a string of digits gives the integer, else NaN
parseInt(x) == IF x.t \in {"num", "str"} THEN x.v ELSE NaN

\* !x : undefined, null and the number 0 are falsy; the string "0" is not
Falsy(x) == x.t \in {"undef", "null"} \/ (x.t = "num" /\ x.v = 0)

\* x || null
OrNull(x) == IF Falsy(x) THEN Null ELSE x

\* JSON serialisation of an emitted payload drops the undefined properties
Wire(payload) == [f \in {k \in DOMAIN payload : payload[k] # Undefined} |-> payload[f]]

Last(s) == s[Len(s)]

\* a JavaScript text (a display name, a status) and an ISO timestamp
Text(s) == [t |-> "text", s |-> s]
Iso(clock) == [t |-> "time", v |-> clock]

----------------------------------------------------------------------------
(* database.js : the store *)

\* thirtyDaysAgo.setDate(thirtyDaysAgo.getDate() - 30)
RetentionDays == 30
SecondsPerDay == 86400
ThirtyDays == RetentionDays * SecondsPerDay * TicksPerSecond

MaxNow == ThirtyDays + ClockSlack

\* the sample riders created when no database file exists
SeedRiders(clock) ==
    << [id |-> 1, name |-> "John Doe", phone |-> "9876543210",
        email |-> "john@example.com", status |-> "active",
        created_at |-> clock, updated_at |-> clock],
       [id |-> 2, name |-> "Jagdish Suthar", phone |-> "7023204168",
        email |-> "jks@gmail.com", status |-> "active",
        created_at |-> clock, updated_at |-> clock],
       [id |-> 3, name |-> "Mike Johnson", phone |-> "9876543212",
        email |-> "mike@example.com", status |-> "inactive",
        created_at |-> clock, updated_at |-> clock] >>

\* what the file holds before the first successful write
NoFile == [riders |-> << >>, locations |-> << >>, exists |-> FALSE]

\* the document JSON.stringify(db) writes; every value the explored inputs
\* store is a number, a string or null, which JSON writes and reads back as is
Document(d) == [riders |-> d.riders, locations |-> d.locations, exists |-> TRUE]

\* saveDatabase(): the write replaces the file, or fails, is logged and
\* leaves the file as it was; it never throws
saveDatabase(d, ok) == IF ok THEN Document(d) ELSE disk

\* db.riders.find(r => r.id === parseInt(id)): the index of the first match, 0 if none
FindRider(d, id) ==
    LET hits == {i \in 1..Len(d.riders) : d.riders[i].id = parseInt(id)}
    IN  IF hits = {} THEN 0 ELSE CHOOSE i \in hits : \A j \in hits : i <= j

\* getRiderById(id): the rider record, or Undefined
getRiderById(d, id) ==
    IF FindRider(d, id) = 0 THEN Undefined ELSE d.riders[FindRider(d, id)]

\* updateRiderStatus stamping the rider without storing the status
updateRiderStatusStampOnly(d, status, id) ==
    LET i == FindRider(d, id)
    IN  IF i = 0 THEN d ELSE [d EXCEPT !.riders[i].updated_at = now]

\* updateRiderStatus stamping created_at as well
updateRiderStatusRestamping(d, status, id) ==
    LET i == FindRider(d, id)
    IN  IF i = 0 THEN d
        ELSE [d EXCEPT !.riders[i].status = status, !.riders[i].updated_at = now,
                       !.riders[i].created_at = now]

\* updateRiderStatus(status, id): the data set after the call
updateRiderStatus(d, status, id) ==
    LET i == FindRider(d, id)
    IN  IF i = 0 THEN d
        ELSE [d EXCEPT !.riders[i].status = status, !.riders[i].updated_at = now]

\* the file after updateRiderStatus: saved only when the rider was found
DiskAfterStatus(d, id, ok) ==
    IF FindRider(d, id) = 0 THEN disk ELSE saveDatabase(d, ok)

Max(S) == CHOOSE m \in S : \A x \in S : x <= m

\* insertLocation: const id = length > 0 ? Math.max(...ids) + 1 : 1
NextLocationId(d) ==
    IF Len(d.locations) > 0
    THEN Max({d.locations[i].id : i \in 1..Len(d.locations)}) + 1
    ELSE 1

\* insertLocation(riderId, latitude, ..., timestamp): the data set after the push
insertLocation(d, riderId, latitude, longitude, accuracy, speed, heading, timestamp) ==
    [d EXCEPT !.locations = Append(@,
        [id |-> NextLocationId(d), rider_id |-> parseInt(riderId),
         latitude |-> latitude, longitude |-> longitude, accuracy |-> accuracy,
         speed |-> speed, heading |-> heading, timestamp |-> timestamp])]

\* the filter with new Date(l.timestamp) > thirtyDaysAgo
KeepLocationAfter(l) == l.timestamp > now - ThirtyDays

\* deleteOldLocations keeps l when new Date(l.timestamp) >= thirtyDaysAgo
KeepLocation(l) == l.timestamp >= now - ThirtyDays

\* deleteOldLocations(): the data set after the filter
deleteOldLocations(d) ==
    [d EXCEPT !.locations = SelectSeq(@, KeepLocation)]

\* getRiderByPhone(phone): db.riders.find(r => r.phone === phone)
getRiderByPhone(d, phone) ==
    LET hits == {i \in 1..Len(d.riders) : d.riders[i].phone = phone}
    IN  IF hits = {} THEN Undefined
        ELSE d.riders[CHOOSE i \in hits : \A j \in hits : i <= j]

\* Array.prototype.sort with (a, b) => dir * (new Date(a.timestamp) - new Date(b.timestamp)):
\* dir = 1 ascending, dir = -1 descending; the sort is stable
RECURSIVE SortByTime(_, _)
SortByTime(s, dir) ==
    IF s = << >> THEN << >>
    ELSE LET x == s[Len(s)]
             sorted == SortByTime(SubSeq(s, 1, Len(s) - 1), dir)
             stays(e) == dir * (e.timestamp - x.timestamp) <= 0
             moves(e) == dir * (e.timestamp - x.timestamp) > 0
         IN  SelectSeq(sorted, stays) \o <<x>> \o SelectSeq(sorted, moves)

\* the filter with locDate < endDate
InWindowOpenEnd(l, riderId, startTime, endTime) ==
    /\ parseInt(riderId) # NaN
    /\ l.rider_id = parseInt(riderId)
    /\ l.timestamp >= startTime * TicksPerSecond
    /\ l.timestamp < endTime * TicksPerSecond

\* the filter of getLocationHistory: startDate = new Date(startTime * 1000);
\* NaN === NaN is false
InWindow(l, riderId, startTime, endTime) ==
    /\ parseInt(riderId) # NaN
    /\ l.rider_id = parseInt(riderId)
    /\ l.timestamp >= startTime * TicksPerSecond
    /\ l.timestamp <= endTime * TicksPerSecond

\* getLocationHistory(riderId, startTime, endTime)
getLocationHistory(d, riderId, startTime, endTime) ==
    LET matches(l) == InWindow(l, riderId, startTime, endTime)
    IN  SortByTime(SelectSeq(d.locations, matches), 1)

\* the rider's samples sorted oldest first
OldestFirst(d, rider) ==
    LET mine(l) == l.rider_id = rider.id
    IN  SortByTime(SelectSeq(d.locations, mine), 1)

\* getAllLatestLocations: the rider's samples, latest first
LatestFirst(d, rider) ==
    LET mine(l) == l.rider_id = rider.id
    IN  SortByTime(SelectSeq(d.locations, mine), -1)

\* {...riderLocations[0], name: rider.name, phone: rider.phone, status: rider.status}
LatestEntry(l, rider) ==
    [id |-> l.id, rider_id |-> l.rider_id, latitude |-> l.latitude,
     longitude |-> l.longitude, accuracy |-> l.accuracy, speed |-> l.speed,
     heading |-> l.heading, timestamp |-> l.timestamp,
     name |-> rider.name, phone |-> rider.phone, status |-> rider.status]

\* getAllLatestLocations() over the first n riders, in the riders' order
RECURSIVE LatestUpTo(_, _)
LatestUpTo(d, n) ==
    IF n = 0 THEN << >>
    ELSE IF d.riders[n].status = "active" /\ Len(LatestFirst(d, d.riders[n])) > 0
         THEN Append(LatestUpTo(d, n - 1),
                     LatestEntry(LatestFirst(d, d.riders[n])[1], d.riders[n]))
         ELSE LatestUpTo(d, n - 1)

\* getAllLatestLocations()
getAllLatestLocations(d) == LatestUpTo(d, Len(d.riders))

----------------------------------------------------------------------------
(* the presence registry: const activeRiders = new Map() *)

\* the position of key k in the Map, 0 if absent; keys compare by
\* SameValueZero, so the number 2 and the string "2" are different keys
MapIndex(m, k) ==
    LET hits == {i \in 1..Len(m) : m[i].key = k}
    IN  IF hits = {} THEN 0 ELSE CHOOSE i \in hits : TRUE

MapHas(m, k) == MapIndex(m, k) # 0

MapGet(m, k) == m[MapIndex(m, k)]

\* Map.set: an existing key keeps its position and gets the new value,
\* a new key goes to the end
MapSet(m, k, e) ==
    IF MapHas(m, k) THEN [m EXCEPT ![MapIndex(m, k)] = e] ELSE Append(m, e)

\* a delete that leaves the registry as it was
MapDeleteNothing(m, k) == m

\* Map.delete called with the key normalised to a number: the entry kept
\* under the string form of the id stays
MapDeleteByNumber(m, k) ==
    LET differs(e) == e.key # Num(parseInt(k)) IN SelectSeq(m, differs)

\* Map.delete
MapDelete(m, k) ==
    LET differs(e) == e.key # k IN SelectSeq(m, differs)

\* the scan without its break: the last entry of the closed socket wins
LastBySocket(m, socket) ==
    LET hits == {i \in 1..Len(m) : m[i].socketId = socket}
    IN  IF hits = {} THEN 0 ELSE CHOOSE i \in hits : \A j \in hits : i >= j

\* the scan without its socketId test: the first entry of the registry
FirstOfAll(m, socket) == IF Len(m) = 0 THEN 0 ELSE 1

\* the first entry, in iteration order, whose socketId is the closed socket's; 0 if none
FirstBySocket(m, socket) ==
    LET hits == {i \in 1..Len(m) : m[i].socketId = socket}
    IN  IF hits = {} THEN 0 ELSE CHOOSE i \in hits : \A j \in hits : i <= j

----------------------------------------------------------------------------
(* the inputs explored *)

Sockets == {"s1", "s2"}

\* riderId as clients send it: rider 2 as a number and as the string "2",
\* and an id no rider has
RiderIds == {Num(2), Str(2), Num(9)}

RiderNames == {"Jagdish Suthar", "JS"}

LocationFields(riderId, latitude, longitude, accuracy, speed, heading) ==
    [riderId |-> riderId, latitude |-> latitude, longitude |-> longitude,
     accuracy |-> accuracy, speed |-> speed, heading |-> heading]

\* location bodies: complete, with zero coordinates, with a field missing,
\* for a rider the store does not hold
LocationInputs ==
    { LocationFields(Num(2), Num(26), Num(75), Num(5), Num(0), Undefined),
      LocationFields(Num(2), Num(0), Num(75), Undefined, Undefined, Undefined),
      LocationFields(Num(9), Num(26), Num(75), Undefined, Undefined, Undefined),
      LocationFields(Num(2), Num(26), Undefined, Undefined, Undefined, Undefined),
      LocationFields(Num(2), Undefined, Num(75), Undefined, Undefined, Undefined),
      LocationFields(Undefined, Num(26), Num(75), Undefined, Undefined, Undefined) }

\* what riders stream on the socket channel: complete updates, for a rider
\* of the store and for an id no rider has
StreamInputs ==
    { LocationFields(Num(2), Num(26), Num(75), Num(5), Num(0), Undefined),
      LocationFields(Num(9), Num(26), Num(75), Undefined, Undefined, Undefined) }

\* the :id path parameter and the startTime / endTime query parameters
\* arrive as strings; a query parameter may be absent
PathIds == {Str(2), Str(9)}

\* the windows asked for, as <<startTime, endTime>>: the default one, a
\* window of one instant, an ordinary one, one whose start is after its end
Windows == { <<Undefined, Undefined>>, <<Str(0), Str(0)>>,
             <<Str(0), Str(1)>>, <<Str(1), Str(0)>> }

\* the clock advances by one tick or by the retention horizon
TickSteps == {1, ThirtyDays}

----------------------------------------------------------------------------
(* the server: REST endpoints and socket events *)

\* io.emit('rider-status', {riderId, riderName, status, timestamp})
RiderStatus(riderId, riderName, status) ==
    [event |-> "rider-status",
     payload |-> [riderId |-> riderId, riderName |-> riderName,
                  status |-> Text(status), timestamp |-> Iso(now)]]

\* rider?.name
RiderNameOf(d, riderId) ==
    IF FindRider(d, riderId) = 0 THEN Undefined
    ELSE Text(getRiderById(d, riderId).name)

\* socket.on('location-update'): io.emit('location-update', {riderId, riderName: rider?.name, ...})
StreamLocationUpdate(d, data) ==
    [event |-> "location-update",
     payload |-> [riderId |-> data.riderId, riderName |-> RiderNameOf(d, data.riderId),
                  latitude |-> data.latitude, longitude |-> data.longitude,
                  accuracy |-> data.accuracy, speed |-> data.speed,
                  heading |-> data.heading, timestamp |-> Iso(now)]]

\* app.post('/api/locations'): io.emit('location-update', {riderId, latitude, ...})
PostLocationUpdate(d, body) ==
    [event |-> "location-update",
     payload |-> [riderId |-> body.riderId,
                  latitude |-> body.latitude, longitude |-> body.longitude,
                  accuracy |-> body.accuracy, speed |-> body.speed,
                  heading |-> body.heading, timestamp |-> Iso(now)]]

\* the validation without its longitude test
RejectsBodyNoLongitude(body) ==
    Falsy(body.riderId) \/ Falsy(body.latitude)

\* if (!riderId || !latitude || !longitude)
RejectsBody(body) ==
    Falsy(body.riderId) \/ Falsy(body.latitude) \/ Falsy(body.longitude)

\* the data set after the handler's statements.insertLocation(...) call
InsertFrom(d, data) ==
    insertLocation(d, data.riderId, data.latitude, data.longitude,
                   OrNull(data.accuracy), OrNull(data.speed), OrNull(data.heading), now)

NoResponse == [status |-> 0, success |-> FALSE, id |-> 0]

\* the state after database.js has created and saved the sample riders,
\* with no connection yet
Init ==
    /\ now = 0
    /\ db = [riders |-> SeedRiders(0), locations |-> << >>]
    /\ disk \in {Document(db), NoFile}
    /\ activeRiders = << >>
    /\ broadcasts = << >>
    /\ response = NoResponse
    /\ issued = << >>
    /\ last = [op |-> "start"]

\* the file as an earlier run of the server left it: rider 2 inactive and
\* one sample of rider 2
PreviousRun ==
    [riders |-> [SeedRiders(0) EXCEPT ![2].status = "inactive"],
     locations |-> << [id |-> 1, rider_id |-> 2, latitude |-> Num(26),
                       longitude |-> Num(75), accuracy |-> Num(5), speed |-> Null,
                       heading |-> Null, timestamp |-> 0] >>]

\* a file that exists and that JSON.parse rejects
CorruptFile == [riders |-> << >>, locations |-> << >>, exists |-> TRUE, parses |-> FALSE]

\* what dbPath holds when the server starts: nothing, an unreadable
\* document, the document of an earlier run
StartFiles == {NoFile, CorruptFile, Document(PreviousRun)}

\* the data set after database.js has loaded: let db = {riders: [], locations: []};
\* an existing file replaces it if it parses, a missing file seeds the riders
LoadDatabase(file, clock) ==
    IF file.exists
    THEN IF file = CorruptFile
         THEN [riders |-> << >>, locations |-> << >>]
         ELSE [riders |-> file.riders, locations |-> file.locations]
    ELSE [riders |-> SeedRiders(clock), locations |-> << >>]

\* the state after start-up, whatever dbPath held; only the seeding writes
InitStartup ==
    /\ now = 0
    /\ \E file \in StartFiles, ok \in BOOLEAN :
          /\ db = LoadDatabase(file, 0)
          /\ disk = IF file.exists THEN file
                    ELSE IF ok THEN Document(db) ELSE NoFile
          /\ last = [op |-> "start", file |-> file]
    /\ activeRiders = << >>
    /\ broadcasts = << >>
    /\ response = NoResponse
    /\ issued = << >>

\* socket.on('rider-connect')
RiderConnect(socket, riderId, riderName, ok) ==
    /\ Len(broadcasts) < MaxBroadcasts
    /\ activeRiders' = MapSet(activeRiders, riderId,
           [key |-> riderId, socketId |-> socket, name |-> riderName, connectedAt |-> now])
    /\ db' = updateRiderStatus(db, "active", riderId)
    /\ disk' = DiskAfterStatus(db', riderId, ok)
    /\ broadcasts' = Append(broadcasts, RiderStatus(riderId, Text(riderName), "active"))
    /\ last' = [op |-> "rider-connect", socket |-> socket, riderId |-> riderId,
                riderName |-> riderName]
    /\ UNCHANGED <<response, issued, now>>

\* socket.on('location-update')
LocationUpdate(data, ok) ==
    /\ Len(broadcasts) < MaxBroadcasts
    /\ Len(issued) < MaxInserts
    /\ db' = InsertFrom(db, data)
    /\ disk' = saveDatabase(db', ok)
    /\ issued' = Append(issued, NextLocationId(db))
    /\ broadcasts' = Append(broadcasts, StreamLocationUpdate(db', data))
    /\ last' = [op |-> "location-update", data |-> data]
    /\ UNCHANGED <<activeRiders, response, now>>

\* socket.on('rider-disconnect')
RiderDisconnect(riderId, ok) ==
    /\ Len(broadcasts) < MaxBroadcasts
    /\ IF MapHas(activeRiders, riderId)
       THEN /\ activeRiders' = MapDelete(activeRiders, riderId)
            /\ db' = updateRiderStatus(db, "inactive", riderId)
            /\ disk' = DiskAfterStatus(db', riderId, ok)
            /\ broadcasts' = Append(broadcasts,
                   RiderStatus(riderId, Text(MapGet(activeRiders, riderId).name), "inactive"))
       ELSE UNCHANGED <<activeRiders, db, disk, broadcasts>>
    /\ last' = [op |-> "rider-disconnect", riderId |-> riderId]
    /\ UNCHANGED <<response, issued, now>>

\* socket.on('disconnect'): the connection closed
Disconnect(socket, ok) ==
    /\ Len(broadcasts) < MaxBroadcasts
    /\ LET i == FirstBySocket(activeRiders, socket)
       IN  IF i # 0
           THEN /\ activeRiders' = MapDelete(activeRiders, activeRiders[i].key)
                /\ db' = updateRiderStatus(db, "inactive", activeRiders[i].key)
                /\ disk' = DiskAfterStatus(db', activeRiders[i].key, ok)
                /\ broadcasts' = Append(broadcasts,
                       RiderStatus(activeRiders[i].key, Text(activeRiders[i].name), "inactive"))
           ELSE UNCHANGED <<activeRiders, db, disk, broadcasts>>
    /\ last' = [op |-> "disconnect", socket |-> socket]
    /\ UNCHANGED <<response, issued, now>>

\* app.post('/api/locations')
PostLocations(body, ok) ==
    /\ Len(broadcasts) < MaxBroadcasts
    /\ Len(issued) < MaxInserts
    /\ IF RejectsBody(body)
       THEN /\ response' = [status |-> 400, success |-> FALSE, id |-> 0]
            /\ UNCHANGED <<db, disk, issued, broadcasts>>
       ELSE /\ db' = InsertFrom(db, body)
            /\ disk' = saveDatabase(db', ok)
            /\ issued' = Append(issued, NextLocationId(db))
            /\ broadcasts' = Append(broadcasts, PostLocationUpdate(db', body))
            /\ response' = [status |-> 200, success |-> TRUE, id |-> NextLocationId(db)]
    /\ last' = [op |-> "post-locations", data |-> body]
    /\ UNCHANGED <<activeRiders, now>>

\* the setInterval cleanup job
CleanupJob(ok) ==
    /\ db' = deleteOldLocations(db)
    /\ disk' = IF Len(db.locations) - Len(db'.locations) > 0
               THEN saveDatabase(db', ok) ELSE disk
    /\ last' = [op |-> "cleanup", changes |-> Len(db.locations) - Len(db'.locations)]
    /\ UNCHANGED <<activeRiders, broadcasts, response, issued, now>>

\* res.json({success: true, data}), data one record or an array of records,
\* and res.status(404).json({success: false, ...})
Found(data) == [status |-> 200, success |-> TRUE, data |-> [t |-> "object", v |-> data]]
FoundAll(data) == [status |-> 200, success |-> TRUE, data |-> [t |-> "array", v |-> data]]
NotFound == [status |-> 404, success |-> FALSE]

\* app.get('/api/riders')
GetRiders ==
    /\ response' = FoundAll(db.riders)
    /\ last' = [op |-> "get-riders"]
    /\ UNCHANGED <<db, disk, activeRiders, broadcasts, issued, now>>

\* app.get('/api/riders/:id')
GetRider(id) ==
    /\ response' = IF getRiderById(db, id) = Undefined THEN NotFound
                   ELSE Found(getRiderById(db, id))
    /\ last' = [op |-> "get-rider"]
    /\ UNCHANGED <<db, disk, activeRiders, broadcasts, issued, now>>

\* app.post('/api/riders/auth') with a non-empty phone number in the body
AuthRider(phone) ==
    /\ response' = IF getRiderByPhone(db, phone) = Undefined THEN NotFound
                   ELSE Found(getRiderByPhone(db, phone))
    /\ last' = [op |-> "auth"]
    /\ UNCHANGED <<db, disk, activeRiders, broadcasts, issued, now>>

\* Math.floor(Date.now() / 1000)
NowSeconds == now \div TicksPerSecond

\* startTime ? parseInt(startTime) : Math.floor(Date.now() / 1000) - 86400
WindowStart(startTime) ==
    IF Falsy(startTime) THEN NowSeconds - SecondsPerDay ELSE parseInt(startTime)

\* endTime ? parseInt(endTime) : Math.floor(Date.now() / 1000)
WindowEnd(endTime) ==
    IF Falsy(endTime) THEN NowSeconds ELSE parseInt(endTime)

\* app.get('/api/riders/:id/locations')
GetLocations(id, startTime, endTime) ==
    /\ response' = FoundAll(getLocationHistory(db, id, WindowStart(startTime),
                                               WindowEnd(endTime)))
    /\ last' = [op |-> "get-locations"]
    /\ UNCHANGED <<db, disk, activeRiders, broadcasts, issued, now>>

\* app.get('/api/locations/latest')
GetLatest ==
    /\ response' = FoundAll(getAllLatestLocations(db))
    /\ last' = [op |-> "get-latest"]
    /\ UNCHANGED <<db, disk, activeRiders, broadcasts, issued, now>>

\* time passes between handlers
Tick(step) ==
    /\ now + step <= MaxNow
    /\ step = 1 => now % ThirtyDays < ClockSlack
    /\ now' = now + step
    /\ UNCHANGED <<db, disk, activeRiders, broadcasts, response, issued, last>>

\* the presence events of the socket channel
NextPresence ==
    \/ \E s \in Sockets, r \in RiderIds, n \in RiderNames, ok \in BOOLEAN :
          RiderConnect(s, r, n, ok)
    \/ \E r \in RiderIds, ok \in BOOLEAN : RiderDisconnect(r, ok)
    \/ \E s \in Sockets, ok \in BOOLEAN : Disconnect(s, ok)

SpecPresence == Init /\ [][NextPresence]_vars

\* every event of the socket channel: presence events and location updates
NextRelay ==
    \/ \E s \in Sockets, r \in RiderIds, n \in RiderNames, ok \in BOOLEAN :
          RiderConnect(s, r, n, ok)
    \/ \E r \in RiderIds, ok \in BOOLEAN : RiderDisconnect(r, ok)
    \/ \E s \in Sockets, ok \in BOOLEAN : Disconnect(s, ok)
    \/ \E data \in StreamInputs, ok \in BOOLEAN : LocationUpdate(data, ok)

SpecRelay == Init /\ [][NextRelay]_vars

\* the location paths, the cleanup job and the clock
NextStore ==
    \/ \E data \in StreamInputs, ok \in BOOLEAN : LocationUpdate(data, ok)
    \/ \E body \in LocationInputs, ok \in BOOLEAN : PostLocations(body, ok)
    \/ \E ok \in BOOLEAN : CleanupJob(ok)
    \/ \E step \in TickSteps : Tick(step)

SpecStore == Init /\ [][NextStore]_vars

\* the location history and latest-location endpoints over the samples
\* riders stream while time passes
NextQuery ==
    \/ \E data \in StreamInputs : LocationUpdate(data, TRUE)
    \/ \E step \in TickSteps : Tick(step)
    \/ \E id \in PathIds, w \in Windows : GetLocations(id, w[1], w[2])
    \/ GetLatest

SpecQuery == InitStartup /\ [][NextQuery]_vars

\* one rider connection, a rider of the store and an id no rider has
ServerSockets == {"s1"}
ServerRiderIds == {Num(2), Num(9)}
ServerNames == {"JS"}
ServerPathIds == {Str(2)}
ServerPhones == {"7023204168"}

\* a body the REST path accepts and one it rejects
ServerBodies ==
    { LocationFields(Num(2), Num(26), Num(75), Num(5), Num(0), Undefined),
      LocationFields(Num(2), Num(26), Undefined, Undefined, Undefined, Undefined) }

\* every handler of the server, from every start-up, over short streams
NextServer ==
    \/ /\ Len(broadcasts) < MaxServerEvents
       /\ \E s \in ServerSockets, r \in ServerRiderIds, n \in ServerNames, ok \in BOOLEAN :
             RiderConnect(s, r, n, ok)
    \/ \E r \in ServerRiderIds, ok \in BOOLEAN : RiderDisconnect(r, ok)
    \/ \E s \in ServerSockets, ok \in BOOLEAN : Disconnect(s, ok)
    \/ /\ Len(broadcasts) < MaxServerEvents
       /\ \E data \in StreamInputs, ok \in BOOLEAN : LocationUpdate(data, ok)
    \/ /\ Len(broadcasts) < MaxServerEvents
       /\ \E body \in ServerBodies, ok \in BOOLEAN : PostLocations(body, ok)
    \/ \E ok \in BOOLEAN : CleanupJob(ok)
    \/ Tick(ThirtyDays)
    \/ GetRiders
    \/ \E id \in ServerPathIds : GetRider(id)
    \/ \E phone \in ServerPhones : AuthRider(phone)
    \/ \E id \in ServerPathIds : GetLocations(id, Undefined, Undefined)
    \/ GetLatest

SpecServer == InitStartup /\ [][NextServer]_vars

----------------------------------------------------------------------------
(* Properties *)

\* the registry entries whose key the store resolves to the rider at index i
EntriesOfRider(i) ==
    {j \in 1..Len(activeRiders) : FindRider(db, activeRiders[j].key) = i}

\* C1: the ids insertLocation returns are strictly increasing in call order,
\* so none is returned twice, also when the cleanup job removed samples
\* between two inserts.
C1_IdsStrictlyIncreasing ==
    \A i, j \in 1..Len(issued) : i < j => issued[i] < issued[j]

\* C2: after every handler of the socket channel, every rider of the store
\* that has a presence entry has status 'active'.
C2_PresentImpliesActive ==
    \A i \in 1..Len(db.riders) :
        EntriesOfRider(i) # {} => db.riders[i].status = "active"

\* C3: in every reachable state, every rider of the store that has no
\* presence entry has status 'inactive'.
C3_AbsentImpliesInactive ==
    \A i \in 1..Len(db.riders) :
        EntriesOfRider(i) = {} => db.riders[i].status = "inactive"

\* the riders whose status differs before and after a step
StatusChanged ==
    {i \in 1..Len(db.riders) : db'.riders[i].status # db.riders[i].status}

\* the step appends exactly one rider-status broadcast with status 'inactive'
EmitsOneInactive ==
    /\ Len(broadcasts') = Len(broadcasts) + 1
    /\ SubSeq(broadcasts', 1, Len(broadcasts)) = broadcasts
    /\ Last(broadcasts').event = "rider-status"
    /\ Last(broadcasts').payload.status = Text("inactive")

\* C4: when a connection closes while an entry registered for a rider of the
\* store still carries its handle, the close removes exactly one presence
\* entry, takes exactly one rider from 'active' to 'inactive' and emits
\* exactly one 'inactive' rider-status broadcast, however many entries
\* carry the handle.
C4_CloseRemovesOneActiveRider ==
    [][ \A s \in Sockets, ok \in BOOLEAN :
          ( /\ Disconnect(s, ok)
            /\ FirstBySocket(activeRiders, s) # 0
            /\ FindRider(db, activeRiders[FirstBySocket(activeRiders, s)].key) # 0 )
          => /\ Len(activeRiders') = Len(activeRiders) - 1
             /\ \E i \in 1..Len(db.riders) :
                   /\ StatusChanged = {i}
                   /\ db.riders[i].status = "active"
                   /\ db'.riders[i].status = "inactive"
             /\ EmitsOneInactive ]_vars

\* C5: an explicit rider-disconnect for a registered riderId removes that
\* entry and no other, leaves the rider the store resolves it to 'inactive'
\* and emits one 'inactive' rider-status broadcast carrying the entry's
\* connect-time name; for an unregistered riderId the registry, the store,
\* the file and the broadcast stream are unchanged.
C5_ExplicitDisconnect ==
    [][ \A r \in RiderIds, ok \in BOOLEAN :
          RiderDisconnect(r, ok)
          => IF \E j \in 1..Len(activeRiders) : activeRiders[j].key = r
             THEN \E j \in 1..Len(activeRiders) :
                    /\ activeRiders[j].key = r
                    /\ activeRiders' = [k \in 1..(Len(activeRiders) - 1) |->
                          IF k < j THEN activeRiders[k] ELSE activeRiders[k + 1]]
                    /\ FindRider(db, r) # 0
                          => db'.riders[FindRider(db, r)].status = "inactive"
                    /\ EmitsOneInactive
                    /\ Last(broadcasts').payload.riderId = r
                    /\ Last(broadcasts').payload.riderName = Text(activeRiders[j].name)
             ELSE UNCHANGED <<activeRiders, db, disk, broadcasts>> ]_vars

\* C5 witness: a rider-disconnect has removed a registered entry and its
\* 'inactive' broadcast is the last of the stream
C5_Witness ==
    /\ last.op = "rider-disconnect"
    /\ Len(broadcasts) > 0
    /\ Last(broadcasts).event = "rider-status"
    /\ Last(broadcasts).payload.status = Text("inactive")
    /\ Last(broadcasts).payload.riderId = last.riderId
    /\ \A j \in 1..Len(activeRiders) : activeRiders[j].key # last.riderId

\* C6: the registry never holds two entries for one rider identifier, and
\* after a rider-connect the entry of that identifier holds the handle and
\* the name of that connect.
C6_OneEntryPerRider ==
    /\ \A i, j \in 1..Len(activeRiders) :
          parseInt(activeRiders[i].key) = parseInt(activeRiders[j].key) => i = j
    /\ last.op = "rider-connect"
          => \E j \in 1..Len(activeRiders) :
                /\ parseInt(activeRiders[j].key) = parseInt(last.riderId)
                /\ activeRiders[j].socketId = last.socket
                /\ activeRiders[j].name = last.riderName

\* a required field of a POST /api/locations body is missing
LacksRequired(body) ==
    \/ body.riderId = Undefined
    \/ body.latitude = Undefined
    \/ body.longitude = Undefined

\* C7: a POST /api/locations that lacks riderId, latitude or longitude is
\* answered 400 and changes neither the data set in memory nor the file,
\* and emits no broadcast.
C7_MissingFieldRejected ==
    [][ \A body \in LocationInputs, ok \in BOOLEAN :
          (PostLocations(body, ok) /\ LacksRequired(body))
          => /\ response'.status = 400
             /\ response'.success = FALSE
             /\ UNCHANGED <<db, disk, broadcasts>> ]_vars

\* C7 witness: a request without longitude has been answered 400
C7_Witness ==
    /\ last.op = "post-locations"
    /\ last.data.longitude = Undefined
    /\ last.data.riderId # Undefined
    /\ last.data.latitude # Undefined
    /\ response.status = 400

\* C8: POST /api/locations answers 400 exactly when a required field is
\* missing; a request with all three present, whatever their numeric
\* values, inserts exactly one sample and returns its id with success.
C8_RejectsOnlyMissing ==
    [][ \A body \in LocationInputs, ok \in BOOLEAN :
          PostLocations(body, ok)
          => /\ response'.status = 400 <=> LacksRequired(body)
             /\ ~LacksRequired(body)
                  => /\ Len(db'.locations) = Len(db.locations) + 1
                     /\ SubSeq(db'.locations, 1, Len(db.locations)) = db.locations
                     /\ response'.success
                     /\ response'.id = Last(db'.locations).id ]_vars

\* C9: the broadcast of an accepted POST /api/locations has the fields and
\* values the socket path emits for the same input on the same store,
\* riderName included.
C9_SameBroadcastOnBothPaths ==
    [][ \A body \in LocationInputs, ok \in BOOLEAN :
          (PostLocations(body, ok) /\ response'.status = 200)
          => /\ Len(broadcasts') = Len(broadcasts) + 1
             /\ Last(broadcasts').event = StreamLocationUpdate(db', body).event
             /\ Wire(Last(broadcasts').payload)
                  = Wire(StreamLocationUpdate(db', body).payload) ]_vars

\* C10: when the write of the file fails during a location update, the
\* socket path emits no location-update broadcast for it and the REST path
\* answers with a server error.
C10_FailedWriteDropsEvent ==
    [][ /\ \A data \in StreamInputs :
              LocationUpdate(data, FALSE) => broadcasts' = broadcasts
        /\ \A body \in LocationInputs :
              (PostLocations(body, FALSE) /\ ~RejectsBody(body))
              => (response'.status >= 500 /\ ~response'.success) ]_vars

\* C11: when the database file exists at start-up and cannot be parsed, the
\* store starts with the freshly seeded data set: the sample riders and no
\* location
C11_UnreadableFileReseeds ==
    (last.op = "start" /\ last.file = CorruptFile)
        => db = [riders |-> SeedRiders(now), locations |-> << >>]

\* two rider records that differ at most in status and updated_at
SameButStatus(a, b) ==
    /\ DOMAIN a = DOMAIN b
    /\ \A f \in DOMAIN a \ {"status", "updated_at"} : a[f] = b[f]

\* the step is one of the three presence handlers
PresenceStep ==
    \/ \E s \in ServerSockets, r \in ServerRiderIds, n \in ServerNames, ok \in BOOLEAN :
          RiderConnect(s, r, n, ok)
    \/ \E r \in ServerRiderIds, ok \in BOOLEAN : RiderDisconnect(r, ok)
    \/ \E s \in ServerSockets, ok \in BOOLEAN : Disconnect(s, ok)

\* the step is a location update, a query, the cleanup job or the clock
OtherStep ==
    \/ \E data \in StreamInputs, ok \in BOOLEAN : LocationUpdate(data, ok)
    \/ \E body \in ServerBodies, ok \in BOOLEAN : PostLocations(body, ok)
    \/ \E ok \in BOOLEAN : CleanupJob(ok)
    \/ Tick(ThirtyDays)
    \/ GetRiders
    \/ \E id \in ServerPathIds : GetRider(id)
    \/ \E phone \in ServerPhones : AuthRider(phone)
    \/ \E id \in ServerPathIds : GetLocations(id, Undefined, Undefined)
    \/ GetLatest

\* C12: no step adds or removes a rider record; a rider record changes only
\* in status and updated_at, and only in a rider-connect, rider-disconnect
\* or connection-close step; location updates, queries and the cleanup job
\* leave the riders as they were
C12_RidersFrame ==
    [][ /\ Len(db'.riders) = Len(db.riders)
        /\ \A i \in 1..Len(db.riders) : SameButStatus(db.riders[i], db'.riders[i])
        /\ db'.riders # db.riders => PresenceStep
        /\ OtherStep => db'.riders = db.riders ]_vars

\* a rider-connect has just moved rider 2 from 'inactive' to 'active' and
\* stamped it, in a store that holds a location sample
C12_Witness ==
    /\ last.op = "rider-connect"
    /\ Len(db.riders) = 3
    /\ db.riders[2].status = "active"
    /\ db.riders[2].updated_at > db.riders[2].created_at
    /\ Len(db.locations) > 0

\* the stored samples of the rider the store resolves id to
SamplesOf(d, n) ==
    {l \in {d.locations[i] : i \in 1..Len(d.locations)} : l.rider_id = n}

\* the elements of a sequence
Range(s) == {s[i] : i \in 1..Len(s)}

\* C13: the location history of a rider over [t0, t1], bounds in epoch
\* seconds and inclusive, is exactly the rider's stored samples with
\* t0 <= timestamp <= t1, in ascending order of timestamp; it is empty when
\* nothing matches or t0 > t1
C13_HistoryIsWindow ==
    [][ \A id \in PathIds, w \in Windows :
          (last'.op = "get-locations" /\ GetLocations(id, w[1], w[2]))
          => LET t0 == WindowStart(w[1])
                 t1 == WindowEnd(w[2])
                 res == response'.data.v
                 wanted == {l \in SamplesOf(db, parseInt(id)) :
                              /\ t0 * TicksPerSecond <= l.timestamp
                              /\ l.timestamp <= t1 * TicksPerSecond}
             IN  /\ Range(res) = wanted
                 /\ Len(res) = Cardinality(wanted)
                 /\ \A i \in 1..Len(res), j \in 1..Len(res) :
                       i < j => res[i].timestamp <= res[j].timestamp
                 /\ t0 > t1 => res = << >> ]_vars

\* a history of two samples taken at different times, the first of them on
\* the lower bound of the window
C13_Witness ==
    /\ last.op = "get-locations"
    /\ Len(response.data.v) = 2
    /\ response.data.v[1].timestamp = 0
    /\ response.data.v[1].timestamp < response.data.v[2].timestamp

\* the active riders that have at least one stored sample
ActiveWithSamples(d) ==
    {i \in 1..Len(d.riders) :
        d.riders[i].status = "active" /\ SamplesOf(d, d.riders[i].id) # {}}

\* C14: the latest-locations result holds exactly one element for each
\* active rider that has a stored sample, that element being the rider's
\* sample with the greatest timestamp, and no element for any other rider
C14_LatestPerActiveRider ==
    [][ GetLatest
        => LET res == response'.data.v
           IN  /\ Len(res) = Cardinality(ActiveWithSamples(db))
               /\ \A i \in ActiveWithSamples(db) :
                     \E k \in 1..Len(res) :
                        /\ res[k].rider_id = db.riders[i].id
                        /\ res[k].name = db.riders[i].name
                        /\ \E l \in SamplesOf(db, db.riders[i].id) :
                              /\ l.id = res[k].id
                              /\ l.timestamp = res[k].timestamp
                              /\ l.latitude = res[k].latitude
                              /\ l.longitude = res[k].longitude
                        /\ \A l \in SamplesOf(db, db.riders[i].id) :
                              l.timestamp <= res[k].timestamp
               /\ \A k \in 1..Len(res) :
                     \E i \in ActiveWithSamples(db) : res[k].rider_id = db.riders[i].id ]_vars

\* the latest-locations result for a store in which the one active rider
\* with samples has an older sample as well
C14_Witness ==
    /\ last.op = "get-latest"
    /\ Len(response.data.v) = 1
    /\ \E l \in SamplesOf(db, response.data.v[1].rider_id) :
          l.timestamp < response.data.v[1].timestamp

\* s holds elements of t only, in the order they have in t
InOrderOf(s, t) ==
    /\ Range(s) \subseteq Range(t)
    /\ \A i \in 1..Len(s), j \in 1..Len(s) :
          i < j => \E a \in 1..Len(t), b \in 1..Len(t) :
                      a < b /\ t[a] = s[i] /\ t[b] = s[j]

\* C15: the cleanup job removes exactly the samples older than the cutoff,
\* now minus 30 days, keeps the others as they were and in their order,
\* returns the number removed, and a second run at the same instant
\* removes none
C15_PruneRemovesOld ==
    [][ \A ok \in BOOLEAN :
          CleanupJob(ok)
          => LET cutoff == now - RetentionDays * SecondsPerDay * TicksPerSecond
                 old == {l \in Range(db.locations) : l.timestamp < cutoff}
             IN  /\ Range(db'.locations) = Range(db.locations) \ old
                 /\ InOrderOf(db'.locations, db.locations)
                 /\ Len(db'.locations) = Len(db.locations) - Cardinality(old)
                 /\ last'.changes = Cardinality(old)
                 /\ deleteOldLocations(db') = db'
                 /\ db'.riders = db.riders ]_vars

\* the cleanup job has removed a sample and kept one
C15_Witness ==
    /\ last.op = "cleanup"
    /\ last.changes > 0
    /\ Len(db.locations) > 0

\* what a handler's call updateRiderStatus(status, id) leaves: a rider the
\* store holds reads back with that status and a timestamp not earlier than
\* before; for an id the store does not hold, store and file are untouched
StatusStored(status, id) ==
    IF getRiderById(db, id) # Undefined
    THEN /\ getRiderById(db', id).status = status
         /\ getRiderById(db', id).updated_at >= getRiderById(db, id).updated_at
         /\ getRiderById(db', id).id = parseInt(id)
    ELSE db' = db /\ disk' = disk

\* C16: after updateRiderStatus(s, id), getRiderById(id) returns status s
\* and an updated timestamp not earlier than before; for an id the store
\* does not hold, nothing changes
C16_StatusReadsBack ==
    [][ /\ \A s \in ServerSockets, r \in ServerRiderIds, n \in ServerNames, ok \in BOOLEAN :
              RiderConnect(s, r, n, ok) => StatusStored("active", r)
        /\ \A r \in ServerRiderIds, ok \in BOOLEAN :
              (RiderDisconnect(r, ok) /\ MapHas(activeRiders, r))
              => StatusStored("inactive", r)
        /\ \A s \in ServerSockets, ok \in BOOLEAN :
              (Disconnect(s, ok) /\ FirstBySocket(activeRiders, s) # 0)
              => StatusStored("inactive", activeRiders[FirstBySocket(activeRiders, s)].key) ]_vars

\* a rider-disconnect has set rider 2 'inactive' at a later time than the
\* rider was created
C16_Witness ==
    /\ last.op = "rider-disconnect"
    /\ getRiderById(db, Num(2)) # Undefined
    /\ getRiderById(db, Num(2)).status = "inactive"
    /\ getRiderById(db, Num(2)).updated_at = now
    /\ getRiderById(db, Num(2)).updated_at > getRiderById(db, Num(2)).created_at

\* the step is a handler that calls a mutating store operation, its write,
\* if it makes one, succeeding (ok) or failing (~ok)
StoreStep(ok) ==
    \/ \E s \in ServerSockets, r \in ServerRiderIds, n \in ServerNames :
          RiderConnect(s, r, n, ok)
    \/ \E r \in ServerRiderIds : RiderDisconnect(r, ok) /\ MapHas(activeRiders, r)
    \/ \E s \in ServerSockets : Disconnect(s, ok) /\ FirstBySocket(activeRiders, s) # 0
    \/ \E data \in StreamInputs : LocationUpdate(data, ok)
    \/ \E body \in ServerBodies : PostLocations(body, ok) /\ ~RejectsBody(body)
    \/ CleanupJob(ok)

\* the start-up left a file behind: the one found, or the seeded one
StartedWithFile == last.op = "start" /\ disk.exists

\* C17: as long as no write fails, the file holds the in-memory data set
\* after every store operation, from the first one after start-up on; an
\* operation whose write fails keeps its mutation in memory and leaves the
\* file as the last successful write made it
C17_FileFollowsMemory ==
    [][ /\ ((disk = Document(db) \/ StartedWithFile) /\ StoreStep(TRUE))
              => disk' = Document(db')
        /\ StoreStep(FALSE) => disk' = disk
        /\ \A data \in StreamInputs :
              LocationUpdate(data, FALSE)
              => Len(db'.locations) = Len(db.locations) + 1
        /\ \A s \in ServerSockets, r \in ServerRiderIds, n \in ServerNames :
              (RiderConnect(s, r, n, FALSE) /\ getRiderById(db, r) # Undefined)
              => getRiderById(db', r).status = "active"
        /\ CleanupJob(FALSE)
              => Len(db'.locations) = Len(db.locations) - last'.changes ]_vars

\* the positions of the registry entries that hold a connection's handle
HeldBy(m, socket) == {j \in 1..Len(m) : m[j].socketId = socket}

\* m without its element at position i
Without(m, i) == SubSeq(m, 1, i - 1) \o SubSeq(m, i + 1, Len(m))

\* C18 as stated: after the close of a connection has been handled, no
\* registry entry holds that connection's handle
C18_NoEntryHoldsClosedHandle ==
    [][ \A s \in Sockets, ok \in BOOLEAN :
          Disconnect(s, ok) => HeldBy(activeRiders', s) = {} ]_vars

\* C18 amended: handling the close removes the first entry, in registration
\* order, that holds the connection's handle and keeps every other entry;
\* so no entry holds the handle afterwards if at most one did before
C18_CloseRemovesFirstHolder ==
    [][ \A s \in Sockets, ok \in BOOLEAN :
          (Disconnect(s, ok) /\ HeldBy(activeRiders, s) # {})
          => LET first == CHOOSE i \in HeldBy(activeRiders, s) :
                              \A j \in HeldBy(activeRiders, s) : i <= j
             IN  /\ activeRiders' = Without(activeRiders, first)
                 /\ Cardinality(HeldBy(activeRiders', s)) =
                       Cardinality(HeldBy(activeRiders, s)) - 1
                 /\ Cardinality(HeldBy(activeRiders, s)) = 1
                       => HeldBy(activeRiders', s) = {} ]_vars

\* a close has been handled and an entry registered later on the closed
\* connection is still in the registry
C18_Witness ==
    /\ last.op = "disconnect"
    /\ Len(broadcasts) > 0
    /\ Last(broadcasts).payload.status = Text("inactive")
    /\ HeldBy(activeRiders, last.socket) # {}

\* C19: when a connection closes and no registry entry holds its handle,
\* the registry, the riders' statuses, the file and the broadcast stream
\* stay as they were
C19_CloseWithoutEntry ==
    [][ \A s \in Sockets, ok \in BOOLEAN :
          (Disconnect(s, ok) /\ HeldBy(activeRiders, s) = {})
          => UNCHANGED <<activeRiders, db, disk, broadcasts>> ]_vars

\* a close of a connection no entry holds has been handled while a rider is
\* registered under the other connection: the rider is still present and
\* 'active', and the last broadcast is still its 'active' one
C19_Witness ==
    /\ last.op = "disconnect"
    /\ Len(activeRiders) = 1
    /\ activeRiders[1].socketId # last.socket
    /\ Last(broadcasts).payload.status = Text("active")
    /\ Last(broadcasts).payload.riderId = activeRiders[1].key
    /\ getRiderById(db, activeRiders[1].key) # Undefined
    /\ getRiderById(db, activeRiders[1].key).status = "active"

\* the number of rider-status broadcasts with a status for a rider
\* identifier among the first n broadcasts
StatusCount(n, riderId, status) ==
    Cardinality({i \in 1..n :
        /\ broadcasts[i].event = "rider-status"
        /\ broadcasts[i].payload.riderId = riderId
        /\ broadcasts[i].payload.status = Text(status)})

\* C20: in every prefix of the broadcast stream and for every rider
\* identifier, the 'inactive' rider-status broadcasts are at most as many as
\* the 'active' ones
C20_InactiveFollowsActive ==
    \A n \in 0..Len(broadcasts), r \in RiderIds :
        StatusCount(n, r, "inactive") <= StatusCount(n, r, "active")

\* a stream in which a rider went 'active', 'inactive', 'active' and
\* 'inactive' again
C20_Witness ==
    \E r \in RiderIds :
        /\ StatusCount(Len(broadcasts), r, "inactive") = 2
        /\ StatusCount(Len(broadcasts), r, "active") = 2

====
